---- MODULE Spec2Model ----
(***************************************************************************)
(* FlatFlow balance utility (apps/web/lib/balance.ts): net balances,       *)
(* greedy settlement simplification, fairness scores and the helpers that  *)
(* read settlements; the result cache and the handler of the balance       *)
(* route; invite creation and acceptance; the chore completion toggle.     *)
(* Amounts are integer minor units (cents).                                *)
(***************************************************************************)
EXTENDS Integers, Sequences, FiniteSets, TLC

VARIABLES users, expenses, pc, netBalances, balances, settlements,
          choreAssignments, fairnessScores,
          balanceCache, now, lastCall,
          dbMembers, dbExpenses, dbChores, requests,
          invites, groupMembers, creates, accepts,
          assignmentRow, assignmentAtStart, toggles

fairVars == <<choreAssignments, fairnessScores>>

cacheVars == <<balanceCache, now, lastCall>>

dbVars == <<dbMembers, dbExpenses, dbChores>>

inviteVars == <<invites, groupMembers, creates, accepts>>

toggleVars == <<assignmentRow, assignmentAtStart, toggles>>

webVars == <<dbVars, requests, inviteVars, toggleVars>>

vars ==
    <<users, expenses, pc, netBalances, balances, settlements, fairVars, cacheVars, webVars>>

-----------------------------------------------------------------------------
(* Bounds of the explored inputs.                                          *)

MaxUsers == 3
MaxExpenses == 2
MaxRecords == 4
MaxAmount == 2
MaxBalance == 3

-----------------------------------------------------------------------------
(* Input domains.                                                          *)

UserIds == 1..MaxUsers

UserNames == <<"Alice", "Bob", "Charlie", "Dana", "Erin", "Frank">>

User(i) == [id |-> i, name |-> UserNames[i]]

IsDistinct(s) == \A i, j \in 1..Len(s) : i # j => s[i] # s[j]

IsAscending(s) == \A i \in 1..Len(s) - 1 : s[i] < s[i + 1]

SeqsUpTo(S, n) == UNION {[1..k -> S] : k \in 0..n}

\* A group's member list: GroupMember rows are unique per (group, user).
UserLists ==
    {[i \in 1..Len(ids) |-> User(ids[i])] :
        ids \in {s \in SeqsUpTo(UserIds, MaxUsers) : IsDistinct(s)}}

ExpenseShares == [userId : UserIds, amount : 1..MaxAmount, isPaid : BOOLEAN]

\* One share row per (expense, user); an expense and its shares are at most
\* MaxRecords rows.
ShareLists ==
    {s \in SeqsUpTo(ExpenseShares, MaxRecords - 1) :
        IsAscending([i \in 1..Len(s) |-> s[i].userId])}

Expenses == [amount : 0..MaxAmount, paidById : UserIds, shares : ShareLists]

\* Expense lists of at most n expenses and r rows (expenses plus shares).
RECURSIVE ExpenseListsOf(_, _)
ExpenseListsOf(n, r) ==
    IF n = 0 \/ r = 0 THEN {<<>>}
    ELSE {<<>>} \cup
         UNION {{<<e>> \o rest : rest \in ExpenseListsOf(n - 1, r - 1 - Len(e.shares))} :
                    e \in {x \in Expenses : Len(x.shares) <= r - 1}}

-----------------------------------------------------------------------------
(* A JavaScript Map: entries keep the order of first insertion.            *)

Null == 0

EmptyMap == [keys |-> <<>>, val |-> [k \in {} |-> 0]]

MapHas(m, k) == k \in DOMAIN m.val

MapSet(m, k, v) ==
    IF MapHas(m, k)
    THEN [m EXCEPT !.val[k] = v]
    ELSE [keys |-> Append(m.keys, k),
          val |-> [x \in DOMAIN m.val \cup {k} |-> IF x = k THEN v ELSE m.val[x]]]

\* balances.get(id) || 0 : undefined and 0 both read as 0.
GetOrZero(m, k) == IF MapHas(m, k) /\ m.val[k] # 0 THEN m.val[k] ELSE 0

-----------------------------------------------------------------------------
(* calculateNetBalances                                                    *)

RECURSIVE InitBalances(_)
InitBalances(us) ==
    IF us = <<>> THEN EmptyMap
    ELSE MapSet(InitBalances(SubSeq(us, 1, Len(us) - 1)), us[Len(us)].id, 0)

\* Mutation: the payer's credit replaces the running balance.
CreditPayerOverwrite(m, expense) == MapSet(m, expense.paidById, expense.amount)

CreditPayer(m, expense) ==
    MapSet(m, expense.paidById, GetOrZero(m, expense.paidById) + expense.amount)

\* Mutation: a share marked paid no longer debits its owner.
DebitShareUnlessPaid(m, share) ==
    IF share.isPaid THEN m
    ELSE MapSet(m, share.userId, GetOrZero(m, share.userId) - share.amount)

DebitShare(m, share) ==
    MapSet(m, share.userId, GetOrZero(m, share.userId) - share.amount)

RECURSIVE DebitShares(_, _)
DebitShares(m, shares) ==
    IF shares = <<>> THEN m
    ELSE DebitShares(DebitShare(m, Head(shares)), Tail(shares))

ProcessExpense(m, expense) == DebitShares(CreditPayer(m, expense), expense.shares)

RECURSIVE ProcessExpenses(_, _)
ProcessExpenses(m, es) ==
    IF es = <<>> THEN m
    ELSE ProcessExpenses(ProcessExpense(m, Head(es)), Tail(es))

\* Mutation: one entry per key of the balance map instead of one per member.
ToNetBalancesOfMap(us, m) ==
    [i \in 1..Len(m.keys) |->
        [userId |-> m.keys[i],
         userName |-> IF \E j \in 1..Len(us) : us[j].id = m.keys[i]
                      THEN UserNames[m.keys[i]] ELSE "Unknown",
         balance |-> m.val[m.keys[i]]]]

ToNetBalances(us, m) ==
    [i \in 1..Len(us) |->
        [userId |-> us[i].id, userName |-> us[i].name,
         balance |-> GetOrZero(m, us[i].id)]]

calculateNetBalances(us, es) ==
    ToNetBalances(us, ProcessExpenses(InitBalances(us), es))

-----------------------------------------------------------------------------
(* simplifySettlements                                                     *)

Abs(x) == IF x < 0 THEN -x ELSE x

Min(a, b) == IF a < b THEN a ELSE b

\* The 0.01 threshold of the scan, in hundredths of a minor unit.
EpsilonHundredths == 1

RECURSIVE WorkingCopy(_)
WorkingCopy(nbs) ==
    IF nbs = <<>> THEN EmptyMap
    ELSE MapSet(WorkingCopy(SubSeq(nbs, 1, Len(nbs) - 1)),
                nbs[Len(nbs)].userId, nbs[Len(nbs)].balance)

\* userMap.get(id)?.name || 'Unknown'
NameOrUnknown(us, id) ==
    LET hits == {i \in 1..Len(us) : us[i].id = id}
    IN IF hits = {} THEN "Unknown"
       ELSE us[CHOOSE i \in hits : \A j \in hits : j <= i].name

ScanStart == [maxDebtor |-> Null, maxDebt |-> 0, maxCreditor |-> Null, maxCredit |-> 0]

\* Mutation: a later member with an equal debt replaces the current maximum.
IsDebtorCandidateOrEqual(balance, maxDebt) ==
    balance * 100 < -EpsilonHundredths /\ Abs(balance) >= maxDebt

\* Mutation: a threshold of one whole minor unit instead of 0.01.
IsDebtorCandidateAboveUnit(balance, maxDebt) ==
    balance < -1 /\ Abs(balance) > maxDebt

IsDebtorCandidate(balance, maxDebt) ==
    balance * 100 < -EpsilonHundredths /\ Abs(balance) > maxDebt

IsCreditorCandidate(balance, maxCredit) ==
    balance * 100 > EpsilonHundredths /\ balance > maxCredit

ScanVisit(acc, balance, userId) ==
    LET a1 == IF IsDebtorCandidate(balance, acc.maxDebt)
              THEN [acc EXCEPT !.maxDebt = Abs(balance), !.maxDebtor = userId]
              ELSE acc
    IN IF IsCreditorCandidate(balance, a1.maxCredit)
       THEN [a1 EXCEPT !.maxCredit = balance, !.maxCreditor = userId]
       ELSE a1

RECURSIVE ScanTo(_, _)
ScanTo(m, n) ==
    IF n = 0 THEN ScanStart
    ELSE ScanVisit(ScanTo(m, n - 1), m.val[m.keys[n]], m.keys[n])

Scan(m) == ScanTo(m, Len(m.keys))

LoopExitsWhenBoth(sc) == sc.maxDebtor = Null /\ sc.maxCreditor = Null

LoopExits(sc) == sc.maxDebtor = Null \/ sc.maxCreditor = Null

\* Mutation: the larger of the two amounts is moved.
SettlementAmountOfLarger(sc) == IF sc.maxDebt > sc.maxCredit THEN sc.maxDebt ELSE sc.maxCredit

SettlementAmount(sc) == Min(sc.maxDebt, sc.maxCredit)

\* Math.round(x * 100) / 100 on an integer number of minor units.
RoundToCents(x) == (x * 100) \div 100

NewSettlement(us, sc) ==
    [from |-> sc.maxDebtor, fromName |-> NameOrUnknown(us, sc.maxDebtor),
     to |-> sc.maxCreditor, toName |-> NameOrUnknown(us, sc.maxCreditor),
     amount |-> RoundToCents(SettlementAmount(sc))]

\* Mutation: the debtor's working balance is left as it was.
UpdateDebtorSkipped(m, sc) == m

UpdateDebtor(m, sc) ==
    MapSet(m, sc.maxDebtor, GetOrZero(m, sc.maxDebtor) + SettlementAmount(sc))

\* Mutation: the creditor's working balance is left as it was.
UpdateCreditorSkipped(m, sc) == m

UpdateCreditor(m, sc) ==
    MapSet(m, sc.maxCreditor, GetOrZero(m, sc.maxCreditor) - SettlementAmount(sc))

\* Mutation: the signs of the two updates are exchanged.
UpdateBalancesReversed(m, sc) ==
    MapSet(MapSet(m, sc.maxDebtor, GetOrZero(m, sc.maxDebtor) - SettlementAmount(sc)),
           sc.maxCreditor, GetOrZero(m, sc.maxCreditor) + SettlementAmount(sc))

UpdateBalances(m, sc) == UpdateCreditor(UpdateDebtor(m, sc), sc)

RECURSIVE SettleLoop(_, _, _)
SettleLoop(us, m, out) ==
    LET sc == Scan(m)
    IN IF LoopExits(sc) THEN out
       ELSE SettleLoop(us, UpdateBalances(m, sc), Append(out, NewSettlement(us, sc)))

simplifySettlements(us, nbs) == SettleLoop(us, WorkingCopy(nbs), <<>>)

calculateBalanceAndSettlements(us, es) ==
    LET nbs == calculateNetBalances(us, es)
    IN [balances |-> nbs, settlements |-> simplifySettlements(us, nbs)]

-----------------------------------------------------------------------------
(* Helpers over a settlement list.                                         *)

RECURSIVE SumAmounts(_)
SumAmounts(ss) == IF ss = <<>> THEN 0 ELSE Head(ss).amount + SumAmounts(Tail(ss))

calculateUserTotalDebt(userId, ss) ==
    SumAmounts(SelectSeq(ss, LAMBDA s : s.from = userId))

calculateUserTotalOwed(userId, ss) ==
    SumAmounts(SelectSeq(ss, LAMBDA s : s.to = userId))

-----------------------------------------------------------------------------
(* The run of calculateBalanceAndSettlements on one input, the settlement  *)
(* loop taken one iteration at a time.                                     *)

\* Inputs of the test suite (balance.test.ts), members user1..user3.
Share(u, a, p) == [userId |-> u, amount |-> a, isPaid |-> p]

Expense(a, payer, shares) == [amount |-> a, paidById |-> payer, shares |-> shares]

TestUsers == <<User(1), User(2), User(3)>>

EqualSplit ==
    <<Expense(12000, 1, <<Share(1, 4000, TRUE), Share(2, 4000, FALSE), Share(3, 4000, FALSE)>>)>>

UnevenSplit ==
    <<Expense(300000, 1,
              <<Share(1, 100000, TRUE), Share(2, 120000, FALSE), Share(3, 80000, FALSE)>>)>>

PartialPayments ==
    <<Expense(12000, 1, <<Share(1, 4000, TRUE), Share(2, 4000, TRUE), Share(3, 4000, FALSE)>>),
      Expense(15000, 2, <<Share(1, 5000, FALSE), Share(2, 5000, TRUE), Share(3, 5000, FALSE)>>)>>

CircularDebts ==
    <<Expense(6000, 1, <<Share(1, 2000, TRUE), Share(2, 2000, FALSE), Share(3, 2000, FALSE)>>),
      Expense(9000, 2, <<Share(1, 3000, FALSE), Share(2, 3000, TRUE), Share(3, 3000, FALSE)>>),
      Expense(12000, 3, <<Share(1, 4000, FALSE), Share(2, 4000, FALSE), Share(3, 4000, TRUE)>>)>>

ZeroAmount == <<Expense(0, 1, <<Share(1, 0, TRUE), Share(2, 0, TRUE)>>)>>

Rounding ==
    <<Expense(100, 1, <<Share(1, 33, TRUE), Share(2, 33, FALSE), Share(3, 34, FALSE)>>)>>

SingleUser == <<Expense(5000, 1, <<Share(1, 5000, TRUE)>>)>>

TestInputs ==
    {<<TestUsers, es>> :
        es \in {EqualSplit, UnevenSplit, PartialPayments, CircularDebts, ZeroAmount, Rounding}}
    \cup {<<<<User(1)>>, SingleUser>>}

\* The parts of the state a run does not touch.
FairnessIdle == choreAssignments = <<>> /\ fairnessScores = <<>>

CacheIdle == balanceCache = EmptyMap /\ now = 0 /\ lastCall = <<>>

DbIdle == dbMembers = <<>> /\ dbExpenses = <<>> /\ dbChores = <<>> /\ requests = <<>>

InviteIdle == invites = <<>> /\ groupMembers = <<>> /\ creates = <<>> /\ accepts = <<>>

ToggleIdle == assignmentRow = <<>> /\ assignmentAtStart = <<>> /\ toggles = <<>>

WebIdle == DbIdle /\ InviteIdle /\ ToggleIdle

Init ==
    /\ \/ expenses \in ExpenseListsOf(MaxExpenses, MaxRecords) /\ users \in UserLists
       \/ \E t \in TestInputs : users = t[1] /\ expenses = t[2]
    /\ pc = "calc"
    /\ netBalances = <<>>
    /\ balances = EmptyMap
    /\ settlements = <<>>
    /\ FairnessIdle
    /\ CacheIdle
    /\ WebIdle

CalculateNetBalances ==
    /\ pc = "calc"
    /\ netBalances' = calculateNetBalances(users, expenses)
    /\ balances' = WorkingCopy(netBalances')
    /\ settlements' = <<>>
    /\ pc' = "loop"
    /\ UNCHANGED <<users, expenses, fairVars, cacheVars, webVars>>

SettleIteration ==
    /\ pc = "loop"
    /\ LET sc == Scan(balances)
       IN /\ ~LoopExits(sc)
          /\ settlements' = Append(settlements, NewSettlement(users, sc))
          /\ balances' = UpdateBalances(balances, sc)
    /\ UNCHANGED <<users, expenses, pc, netBalances, fairVars, cacheVars, webVars>>

SettleBreak ==
    /\ pc = "loop"
    /\ LoopExits(Scan(balances))
    /\ pc' = "done"
    /\ UNCHANGED <<users, expenses, netBalances, balances, settlements, fairVars, cacheVars, webVars>>

Next == CalculateNetBalances \/ SettleIteration \/ SettleBreak

Spec == Init /\ [][Next]_vars

\* simplifySettlements called on its own, on any integer balances of the
\* members; the state after its prologue (the working copy is made).
BalanceLists(us) ==
    {[i \in 1..Len(us) |-> [userId |-> us[i].id, userName |-> us[i].name, balance |-> bs[i]]] :
        bs \in [1..Len(us) -> -MaxBalance..MaxBalance]}

SettleInit ==
    /\ users \in UserLists
    /\ expenses = <<>>
    /\ netBalances \in BalanceLists(users)
    /\ balances = WorkingCopy(netBalances)
    /\ settlements = <<>>
    /\ pc = "loop"
    /\ FairnessIdle
    /\ CacheIdle
    /\ WebIdle

SettleNext == SettleIteration \/ SettleBreak

\* The loop is synchronous code: a step that can be taken is taken.
SettleSpec == SettleInit /\ [][SettleNext]_vars /\ WF_vars(SettleNext)

-----------------------------------------------------------------------------
(* Exact rationals: the quotients paid / owed and completed / total are    *)
(* kept as fractions with a positive denominator.                          *)

Frac(n, d) == [num |-> n, den |-> d]

FracLeq(a, b) == a.num * b.den <= b.num * a.den

FracMin(a, b) == IF FracLeq(a, b) THEN a ELSE b

FracMax(a, b) == IF FracLeq(a, b) THEN b ELSE a

FracAdd(a, b) == Frac(a.num * b.den + b.num * a.den, a.den * b.den)

FracTimes(a, k) == Frac(a.num * k, a.den)

\* Math.round: the nearest integer, halves towards plus infinity.
MathRound(a) == (2 * a.num + a.den) \div (2 * a.den)

\* Math.min(Math.max(x, lo), hi) without the bounds.
ClampNone(x, lo, hi) == x

\* Math.min(Math.max(x, lo), hi)
Clamp(x, lo, hi) == FracMin(FracMax(x, Frac(lo, 1)), Frac(hi, 1))

-----------------------------------------------------------------------------
(* computeFairnessScore                                                    *)

MaxChores == 2
MaxPoints == 1
MaxFairExpenses == 1
MaxFairRecords == 2

ChoreAssignments == [userId : UserIds, points : 0..MaxPoints, isCompleted : BOOLEAN]

ChoreLists == SeqsUpTo(ChoreAssignments, MaxChores)

RECURSIVE InitExpenseContributions(_)
InitExpenseContributions(us) ==
    IF us = <<>> THEN EmptyMap
    ELSE MapSet(InitExpenseContributions(SubSeq(us, 1, Len(us) - 1)),
                us[Len(us)].id, [paid |-> 0, owed |-> 0])

\* The payer's entry is made when the payer is not a member.
AddPaidUnguarded(m, expense) ==
    IF MapHas(m, expense.paidById)
    THEN [m EXCEPT !.val[expense.paidById].paid = @ + expense.amount]
    ELSE MapSet(m, expense.paidById, [paid |-> expense.amount, owed |-> 0])

AddPaid(m, expense) ==
    IF MapHas(m, expense.paidById)
    THEN [m EXCEPT !.val[expense.paidById].paid = @ + expense.amount]
    ELSE m

\* Only the shares not marked paid are owed.
AddOwedUnlessPaid(m, share) ==
    IF MapHas(m, share.userId) /\ ~share.isPaid
    THEN [m EXCEPT !.val[share.userId].owed = @ + share.amount]
    ELSE m

AddOwed(m, share) ==
    IF MapHas(m, share.userId)
    THEN [m EXCEPT !.val[share.userId].owed = @ + share.amount]
    ELSE m

RECURSIVE AddOwedShares(_, _)
AddOwedShares(m, shares) ==
    IF shares = <<>> THEN m
    ELSE AddOwedShares(AddOwed(m, Head(shares)), Tail(shares))

TrackExpense(m, expense) == AddOwedShares(AddPaid(m, expense), expense.shares)

RECURSIVE TrackExpenses(_, _)
TrackExpenses(m, es) ==
    IF es = <<>> THEN m
    ELSE TrackExpenses(TrackExpense(m, Head(es)), Tail(es))

expenseContributions(us, es) == TrackExpenses(InitExpenseContributions(us), es)

RECURSIVE InitChoreContributions(_)
InitChoreContributions(us) ==
    IF us = <<>> THEN EmptyMap
    ELSE MapSet(InitChoreContributions(SubSeq(us, 1, Len(us) - 1)),
                us[Len(us)].id, [completed |-> 0, total |-> 0, points |-> 0])

\* The points of an assignment count whether or not it is completed.
TallyAssignmentPointsAlways(data, assignment) ==
    IF assignment.isCompleted
    THEN [data EXCEPT !.total = @ + 1, !.completed = @ + 1, !.points = @ + assignment.points]
    ELSE [data EXCEPT !.total = @ + 1, !.points = @ + assignment.points]

TallyAssignment(data, assignment) ==
    IF assignment.isCompleted
    THEN [data EXCEPT !.total = @ + 1, !.completed = @ + 1, !.points = @ + assignment.points]
    ELSE [data EXCEPT !.total = @ + 1]

\* Every member is tallied for every assignment.
TrackAssignmentForAll(m, assignment) ==
    [m EXCEPT !.val = [k \in DOMAIN m.val |-> TallyAssignment(m.val[k], assignment)]]

TrackAssignment(m, assignment) ==
    IF MapHas(m, assignment.userId)
    THEN [m EXCEPT !.val[assignment.userId] = TallyAssignment(@, assignment)]
    ELSE m

RECURSIVE TrackAssignments(_, _)
TrackAssignments(m, cs) ==
    IF cs = <<>> THEN m
    ELSE TrackAssignments(TrackAssignment(m, Head(cs)), Tail(cs))

choreContributions(us, cs) == TrackAssignments(InitChoreContributions(us), cs)

RECURSIVE totalExpenses(_)
totalExpenses(es) ==
    IF es = <<>> THEN 0 ELSE Head(es).amount + totalExpenses(Tail(es))

RECURSIVE totalChorePoints(_)
totalChorePoints(cs) ==
    IF cs = <<>> THEN 0 ELSE Head(cs).points + totalChorePoints(Tail(cs))

expenseScore(expenseData, total) ==
    IF expenseData.owed > 0
    THEN Clamp(Frac(expenseData.paid * 50, expenseData.owed), 0, 50)
    ELSE IF total > 0 /\ expenseData.paid > 0
         THEN Frac(50, 1)
         ELSE Frac(50, 1)

choreScore(choreData, totalPoints) ==
    IF choreData.total > 0
    THEN Frac(choreData.completed * 50, choreData.total)
    ELSE IF totalPoints = 0
         THEN Frac(25, 1)
         ELSE Frac(20, 1)

totalContribution(expenseData, choreData) ==
    (expenseData.paid - expenseData.owed) + (choreData.points * 10)

ExpenseDataOf(em, id) == IF MapHas(em, id) THEN em.val[id] ELSE [paid |-> 0, owed |-> 0]

ChoreDataOf(cm, id) ==
    IF MapHas(cm, id) THEN cm.val[id] ELSE [completed |-> 0, total |-> 0, points |-> 0]

FairnessScoreOf(user, expenseData, choreData, total, totalPoints) ==
    LET e == expenseScore(expenseData, total)
        c == choreScore(choreData, totalPoints)
    IN [userId |-> user.id,
        userName |-> user.name,
        score |-> MathRound(Clamp(FracAdd(e, c), 0, 100)),
        expenseContribution |-> MathRound(FracTimes(e, 2)),
        choreContribution |-> MathRound(FracTimes(c, 2)),
        totalContribution |-> MathRound(Frac(totalContribution(expenseData, choreData), 1))]

computeFairnessScore(us, es, cs) ==
    LET em == expenseContributions(us, es)
        cm == choreContributions(us, cs)
        total == totalExpenses(es)
        totalPoints == totalChorePoints(cs)
    IN [i \in 1..Len(us) |->
            FairnessScoreOf(us[i], ExpenseDataOf(em, us[i].id), ChoreDataOf(cm, us[i].id),
                            total, totalPoints)]

\* The inputs of the fairness tests and of the documented example.
Chore(u, p, c) == [userId |-> u, points |-> p, isCompleted |-> c]

FairnessExpenses ==
    <<Expense(12000, 1, <<Share(1, 4000, TRUE), Share(2, 4000, FALSE), Share(3, 4000, TRUE)>>)>>

FairnessChores ==
    <<Chore(1, 3, TRUE), Chore(1, 2, TRUE), Chore(2, 3, FALSE), Chore(2, 2, FALSE),
      Chore(3, 3, TRUE), Chore(3, 2, FALSE)>>

ExampleExpenses ==
    <<Expense(300000, 1,
        <<Share(1, 100000, TRUE), Share(2, 100000, FALSE), Share(3, 100000, TRUE)>>)>>

ExampleChores ==
    <<Chore(1, 5, TRUE), Chore(1, 3, TRUE), Chore(2, 5, FALSE), Chore(2, 3, FALSE),
      Chore(3, 5, TRUE), Chore(3, 3, FALSE)>>

\* One completed assignment of three.
ThirdChores == <<Chore(1, 1, TRUE), Chore(1, 1, FALSE), Chore(1, 1, FALSE)>>

FairnessInputs ==
    {<<TestUsers, FairnessExpenses, FairnessChores>>,
     <<TestUsers, FairnessExpenses, <<>>>>,
     <<TestUsers, <<>>, FairnessChores>>,
     <<TestUsers, ExampleExpenses, ExampleChores>>,
     <<TestUsers, FairnessExpenses, ThirdChores>>}

SettleIdle == netBalances = <<>> /\ balances = EmptyMap /\ settlements = <<>>

FairInit ==
    /\ \/ /\ choreAssignments \in ChoreLists
          /\ expenses \in ExpenseListsOf(MaxFairExpenses, MaxFairRecords)
          /\ users \in UserLists
       \/ \E t \in FairnessInputs :
             users = t[1] /\ expenses = t[2] /\ choreAssignments = t[3]
    /\ fairnessScores = <<>>
    /\ pc = "fair"
    /\ SettleIdle
    /\ CacheIdle
    /\ WebIdle

ComputeFairnessScore ==
    /\ pc = "fair"
    /\ fairnessScores' = computeFairnessScore(users, expenses, choreAssignments)
    /\ pc' = "scored"
    /\ UNCHANGED <<users, expenses, choreAssignments, netBalances, balances, settlements, cacheVars, webVars>>

FairNext == ComputeFairnessScore

FairSpec == FairInit /\ [][FairNext]_vars

-----------------------------------------------------------------------------
(* The in-memory result cache of the balance route                         *)
(* (apps/web/app/api/invites/route.ts).                                    *)

MaxGroups == 2
MaxModified == 1
MaxData == 2
MaxSpans == 1

CACHE_TTL_MS == 5 * 60 * 1000

CleanupSize == 100

GroupIds == 1..MaxGroups

\* `"${groupId}-${lastModified.getTime()}"` : the text names the group and
\* the instant, and nothing else.
\* The text names the group only.
generateETagOfGroup(groupId, modified) == <<groupId, 0>>

generateETag(groupId, modified) == <<groupId, modified>>

ETags == {generateETag(g, m) : g \in GroupIds, m \in 0..MaxModified}

\* The instants Date.now() is read at: both sides of every TTL boundary.
Instants == {k * CACHE_TTL_MS + j : k \in 0..MaxSpans, j \in 0..1}

CacheEntry(data, timestamp, etag) == [data |-> data, timestamp |-> timestamp, etag |-> etag]

MapDelete(m, k) ==
    IF MapHas(m, k)
    THEN [keys |-> SelectSeq(m.keys, LAMBDA x : x # k),
          val |-> [x \in DOMAIN m.val \ {k} |-> m.val[x]]]
    ELSE m

\* An entry whose age is exactly the TTL counts as expired.
IsExpiredAtTtl(entry, t) == t - entry.timestamp >= CACHE_TTL_MS

IsExpired(entry, t) == t - entry.timestamp > CACHE_TTL_MS

\* Only the group named by the two fingerprints is compared.
ETagMismatchOfGroup(cached, etag) == cached.etag[1] # etag[1]

ETagMismatch(cached, etag) == cached.etag # etag

\* The returned value (<<>> is null, <<entry>> is the entry) and the cache
\* the call leaves, when Date.now() reads t.
getCachedBalance(cache, groupId, etag, t) ==
    IF ~MapHas(cache, groupId)
    THEN [result |-> <<>>, cache |-> cache]
    ELSE LET cached == cache.val[groupId]
         IN IF IsExpired(cached, t)
            THEN [result |-> <<>>, cache |-> MapDelete(cache, groupId)]
            ELSE IF ETagMismatch(cached, etag)
                 THEN [result |-> <<>>, cache |-> MapDelete(cache, groupId)]
                 ELSE [result |-> <<cached>>, cache |-> cache]

\* for (const [key, entry] of balanceCache.entries()) : each entry is judged
\* by its own timestamp, so the loop removes the expired keys and no other.
CleanupFrom(cache, keys, t) ==
    LET expired == {keys[i] : i \in {j \in DOMAIN keys : IsExpired(cache.val[keys[j]], t)}}
    IN [keys |-> SelectSeq(cache.keys, LAMBDA k : k \notin expired),
        val |-> [k \in DOMAIN cache.val \ expired |-> cache.val[k]]]

setCachedBalance(cache, groupId, data, etag, t) ==
    LET stored == MapSet(cache, groupId, CacheEntry(data, t, etag))
    IN IF Len(stored.keys) > CleanupSize
       THEN CleanupFrom(stored, stored.keys, t)
       ELSE stored

Call(fn, groupId, etag, result) ==
    [fn |-> fn, groupId |-> groupId, etag |-> etag, result |-> result]

CacheInit ==
    /\ balanceCache = EmptyMap
    /\ now = 0
    /\ lastCall = <<>>
    /\ pc = "cache"
    /\ users = <<>>
    /\ expenses = <<>>
    /\ SettleIdle
    /\ FairnessIdle
    /\ WebIdle

GetCachedBalance(groupId, etag) ==
    LET r == getCachedBalance(balanceCache, groupId, etag, now)
    IN /\ balanceCache' = r.cache
       /\ lastCall' = Call("getCachedBalance", groupId, etag, r.result)
       /\ UNCHANGED <<now, pc, users, expenses, netBalances, balances, settlements, fairVars, webVars>>

SetCachedBalance(groupId, data, etag) ==
    /\ balanceCache' = setCachedBalance(balanceCache, groupId, data, etag, now)
    /\ lastCall' = Call("setCachedBalance", groupId, etag, <<CacheEntry(data, now, etag)>>)
    /\ UNCHANGED <<now, pc, users, expenses, netBalances, balances, settlements, fairVars, webVars>>

\* Time passes between calls.
Advance ==
    /\ \E t \in Instants : t > now /\ now' = t
    /\ UNCHANGED <<balanceCache, lastCall, pc, users, expenses, netBalances, balances,
                   settlements, fairVars, webVars>>

CacheNext ==
    \/ \E g \in GroupIds, e \in ETags : GetCachedBalance(g, e)
    \/ \E g \in GroupIds, d \in 1..MaxData, e \in ETags : SetCachedBalance(g, d, e)
    \/ Advance

CacheSpec == CacheInit /\ [][CacheNext]_vars

\* A cache at the size where the sweep of setCachedBalance starts: one
\* entry per group 1..n, written at instant 0 or 1.
MaxSweepExtra == 1

SweepSizes == (CleanupSize - 1)..(CleanupSize + MaxSweepExtra)

SweepPatterns == 0..3

SweepGroupIds == {1, CleanupSize + 1}

FullCache(n, p) ==
    [keys |-> [k \in 1..n |-> k],
     val |-> [k \in 1..n |->
                CacheEntry(1, IF k % 4 < p THEN 0 ELSE 1, generateETag(k, 0))]]

SweepInit ==
    /\ \E n \in SweepSizes, p \in SweepPatterns : balanceCache = FullCache(n, p)
    /\ now \in Instants \ {0}
    /\ lastCall = <<>>
    /\ pc = "cache"
    /\ users = <<>>
    /\ expenses = <<>>
    /\ SettleIdle
    /\ FairnessIdle
    /\ WebIdle

SweepNext ==
    \/ \E g \in SweepGroupIds, d \in 1..MaxData : SetCachedBalance(g, d, generateETag(g, 0))
    \/ Advance

SweepSpec == SweepInit /\ [][SweepNext]_vars

-----------------------------------------------------------------------------
(* GET /api/groups/:id/balance over a database of one group. Every await   *)
(* of the handler is a point where other requests and writes interleave.   *)

MaxRequests == 2
MaxDbExpenses == 1
MaxDbChores == 1

RequestedGroup == 1

\* The founder of the group and a user who may join it.
RouteUsers == {1, 2}

NoExpense == [state |-> "none", amount |-> 0, updatedAt |-> 0]

NoChore == [state |-> "none", userId |-> 0, points |-> 0, isCompleted |-> FALSE, updatedAt |-> 0]

IdleRequest ==
    [pc |-> "idle", userId |-> 0, clientETag |-> <<>>, membership |-> 0, lastModified |-> 0,
     etag |-> <<>>, fetched |-> <<>>, response |-> <<>>]

LiveExpenses == {k \in DOMAIN dbExpenses : dbExpenses[k].state = "live"}

LiveChores == {k \in DOMAIN dbChores : dbChores[k].state = "live"}

\* The elements of a set of integers in ascending order.
RECURSIVE Ascending(_)
Ascending(S) ==
    IF S = {} THEN <<>>
    ELSE LET m == CHOOSE x \in S : \A y \in S : x <= y
         IN <<m>> \o Ascending(S \ {m})

MaxOf(S) == IF S = {} THEN 0 ELSE CHOOSE x \in S : \A y \in S : y <= x

\* latestExpense?.updatedAt?.getTime() || 0
latestExpense == MaxOf({dbExpenses[k].updatedAt : k \in LiveExpenses})

latestChore == MaxOf({dbChores[k].updatedAt : k \in LiveChores})

lastModified(membership) == MaxOf({latestExpense, latestChore, membership})

\* The rows the three findMany / findUnique queries return.
FetchedMembers ==
    LET ids == Ascending(DOMAIN dbMembers) IN [i \in 1..Len(ids) |-> User(ids[i])]

FetchedExpenses ==
    LET ids == Ascending(LiveExpenses)
    IN [i \in 1..Len(ids) |->
            Expense(dbExpenses[ids[i]].amount, 1,
                    <<Share(2, dbExpenses[ids[i]].amount, FALSE)>>)]

FetchedChores ==
    LET ids == Ascending(LiveChores)
    IN [i \in 1..Len(ids) |->
            Chore(dbChores[ids[i]].userId, dbChores[ids[i]].points, dbChores[ids[i]].isCompleted)]

Fetched == [members |-> FetchedMembers, expenses |-> FetchedExpenses, chores |-> FetchedChores]

responseData(modified, f) ==
    LET nb == calculateNetBalances(f.members, f.expenses)
        st == simplifySettlements(f.members, nb)
    IN [groupId |-> RequestedGroup,
        lastModified |-> modified,
        balances |-> nb,
        settlements |-> st,
        fairnessScores |-> computeFairnessScore(f.members, f.expenses, f.chores),
        summary |-> [totalExpenses |-> Len(f.expenses),
                     totalAmount |-> totalExpenses(f.expenses),
                     totalChores |-> Len(f.chores),
                     completedChores |-> Len(SelectSeq(f.chores, LAMBDA c : c.isCompleted)),
                     members |-> Len(f.members),
                     settlementsNeeded |-> Len(st)]]

Response(status, etag, xcache, data) ==
    [status |-> status, etag |-> etag, xcache |-> xcache, data |-> data]

Finished(r, etag, response) ==
    [IdleRequest EXCEPT !.pc = "done", !.userId = r.userId, !.etag = etag,
                        !.response = response]

\* The ETags a client can hold: those of the answers given so far.
IssuedETags ==
    {requests[q].response.etag : q \in {x \in DOMAIN requests : requests[x].pc = "done"}}
        \ {<<>>}

RouteInit ==
    /\ dbMembers = [u \in {1} |-> 0]
    /\ dbExpenses = [k \in 1..MaxDbExpenses |-> NoExpense]
    /\ dbChores = [k \in 1..MaxDbChores |-> NoChore]
    /\ requests = [r \in 1..MaxRequests |-> IdleRequest]
    /\ balanceCache = EmptyMap
    /\ now = 0
    /\ lastCall = <<>>
    /\ pc = "route"
    /\ users = <<>>
    /\ expenses = <<>>
    /\ SettleIdle
    /\ FairnessIdle
    /\ InviteIdle
    /\ ToggleIdle

RouteFrame ==
    UNCHANGED <<pc, users, expenses, netBalances, balances, settlements, fairVars,
                inviteVars, toggleVars>>

\* getCurrentUserId and the membership query.
FindMembership(r, userId, clientETag) ==
    /\ requests[r].pc = "idle"
    /\ \A q \in 1..r - 1 : requests[q].pc # "idle"
    /\ requests' =
          [requests EXCEPT ![r] =
              IF userId \in DOMAIN dbMembers
              THEN [@ EXCEPT !.pc = "stamps", !.userId = userId, !.clientETag = clientETag,
                             !.membership = dbMembers[userId]]
              ELSE [@ EXCEPT !.pc = "done", !.userId = userId,
                             !.response = Response(404, <<>>, "", <<>>)]]
    /\ UNCHANGED <<dbVars, cacheVars>>
    /\ RouteFrame

\* The two findFirst queries for the latest updatedAt.
FindLatest(r) ==
    /\ requests[r].pc = "stamps"
    /\ requests' = [requests EXCEPT ![r] =
          [@ EXCEPT !.pc = "lookup", !.lastModified = lastModified(requests[r].membership),
                    !.membership = 0]]
    /\ UNCHANGED <<dbVars, cacheVars>>
    /\ RouteFrame

\* ETag, If-None-Match and the server-side cache.
Lookup(r) ==
    /\ requests[r].pc = "lookup"
    /\ LET req == requests[r]
           etag == generateETag(RequestedGroup, req.lastModified)
           got == getCachedBalance(balanceCache, RequestedGroup, etag, now)
       IN IF req.clientETag = etag
          THEN /\ requests' = [requests EXCEPT ![r] =
                                  Finished(req, etag, Response(304, etag, "", <<>>))]
               /\ UNCHANGED balanceCache
          ELSE /\ balanceCache' = got.cache
               /\ requests' = [requests EXCEPT ![r] =
                     IF got.result # <<>>
                     THEN Finished(req, etag, Response(200, etag, "HIT", got.result[1].data))
                     ELSE [req EXCEPT !.pc = "fetch", !.etag = etag]]
    /\ UNCHANGED <<dbVars, now, lastCall>>
    /\ RouteFrame

\* The group, expense and assignment queries.
FetchData(r) ==
    /\ requests[r].pc = "fetch"
    /\ requests' = [requests EXCEPT ![r] = [@ EXCEPT !.pc = "publish", !.fetched = Fetched]]
    /\ UNCHANGED <<dbVars, cacheVars>>
    /\ RouteFrame

\* The calculation, setCachedBalance and the answer.
Publish(r) ==
    /\ requests[r].pc = "publish"
    /\ LET req == requests[r]
           data == responseData(req.lastModified, req.fetched)
       IN /\ balanceCache' = setCachedBalance(balanceCache, RequestedGroup, data, req.etag, now)
          /\ requests' = [requests EXCEPT ![r] =
                Finished(req, req.etag, Response(200, req.etag, "MISS", data))]
    /\ UNCHANGED <<dbVars, now, lastCall>>
    /\ RouteFrame

RequestStep ==
    \E r \in DOMAIN requests :
        \/ \E u \in RouteUsers, ce \in {<<>>} \cup IssuedETags : FindMembership(r, u, ce)
        \/ FindLatest(r)
        \/ Lookup(r)
        \/ FetchData(r)
        \/ Publish(r)

\* Writes of the other routes; a written row carries the time of the write.
WriteFrame == UNCHANGED <<requests, cacheVars>> /\ RouteFrame

CreateExpense(k) ==
    /\ dbExpenses[k].state = "none"
    /\ dbExpenses' = [dbExpenses EXCEPT ![k] = [state |-> "live", amount |-> 1, updatedAt |-> now]]
    /\ UNCHANGED <<dbMembers, dbChores>>
    /\ WriteFrame

DeleteExpense(k) ==
    /\ dbExpenses[k].state = "live"
    /\ dbExpenses' = [dbExpenses EXCEPT ![k] = NoExpense]
    /\ UNCHANGED <<dbMembers, dbChores>>
    /\ WriteFrame

\* A chore of one point assigned to the founder.
AssignChore(k) ==
    /\ dbChores[k].state = "none"
    /\ dbChores' = [dbChores EXCEPT ![k] =
          [state |-> "live", userId |-> 1, points |-> 1, isCompleted |-> FALSE,
           updatedAt |-> now]]
    /\ UNCHANGED <<dbMembers, dbExpenses>>
    /\ WriteFrame

ToggleChore(k) ==
    /\ dbChores[k].state = "live"
    /\ dbChores' = [dbChores EXCEPT ![k].isCompleted = ~@, ![k].updatedAt = now]
    /\ UNCHANGED <<dbMembers, dbExpenses>>
    /\ WriteFrame

JoinGroup(u) ==
    /\ u \notin DOMAIN dbMembers
    /\ dbMembers' = [x \in DOMAIN dbMembers \cup {u} |-> IF x = u THEN now ELSE dbMembers[x]]
    /\ UNCHANGED <<dbExpenses, dbChores>>
    /\ WriteFrame

WriteStep ==
    \/ \E k \in DOMAIN dbExpenses : CreateExpense(k) \/ DeleteExpense(k)
    \/ \E k \in DOMAIN dbChores : AssignChore(k) \/ ToggleChore(k)
    \/ \E u \in RouteUsers : JoinGroup(u)

\* Time passes: within the TTL, and beyond it.
RouteInstants == {0, 1, CACHE_TTL_MS + 1}

Elapse ==
    /\ \E t \in RouteInstants : t > now /\ now' = t
    /\ UNCHANGED <<balanceCache, lastCall, dbVars, requests>>
    /\ RouteFrame

RouteNext == RequestStep \/ WriteStep \/ Elapse

RouteSpec == RouteInit /\ [][RouteNext]_vars

\* Requests over a database nobody writes to: any members, expense and
\* assignment rows, written at any instants up to now.
MemberTables ==
    {[u \in {1} |-> 0]} \cup {[u \in RouteUsers |-> IF u = 1 THEN 0 ELSE t] : t \in RouteInstants}

ExpenseRows ==
    {NoExpense} \cup {[state |-> "live", amount |-> 1, updatedAt |-> t] : t \in RouteInstants}

ChoreRows ==
    {NoChore} \cup
    {[state |-> "live", userId |-> 1, points |-> 1, isCompleted |-> c, updatedAt |-> t] :
        c \in BOOLEAN, t \in RouteInstants}

QuietInit ==
    /\ dbMembers \in MemberTables
    /\ dbExpenses \in [1..MaxDbExpenses -> ExpenseRows]
    /\ dbChores \in [1..MaxDbChores -> ChoreRows]
    /\ now \in RouteInstants
    /\ \A u \in DOMAIN dbMembers : dbMembers[u] <= now
    /\ \A k \in DOMAIN dbExpenses : dbExpenses[k].updatedAt <= now
    /\ \A k \in DOMAIN dbChores : dbChores[k].updatedAt <= now
    /\ requests = [r \in 1..MaxRequests |-> IdleRequest]
    /\ balanceCache = EmptyMap
    /\ lastCall = <<>>
    /\ pc = "route"
    /\ users = <<>>
    /\ expenses = <<>>
    /\ SettleIdle
    /\ FairnessIdle
    /\ InviteIdle
    /\ ToggleIdle

QuietNext == RequestStep \/ Elapse

QuietRouteSpec == QuietInit /\ [][QuietNext]_vars

-----------------------------------------------------------------------------
(* Invites of one group: POST /api/invites and POST /api/invites/accept.   *)
(* A user and the user's email carry the same number; user 1 owns the      *)
(* group and sends every invite; an invite's token is its index.           *)

MaxCreates == 2
MaxAccepts == 2
MaxExpiresInDays == 1

DayMs == 24 * 60 * 60 * 1000

Owner == 1

Invitees == {2, 3}

InviteInstants == {0, DayMs, DayMs + 1}

Invite(email, status, expiresAt, recipientId) ==
    [email |-> email, status |-> status, expiresAt |-> expiresAt, recipientId |-> recipientId]

IdleCreate == [pc |-> "idle", email |-> 0, days |-> 0, status |-> 0]

IdleAccept ==
    [pc |-> "idle", userId |-> 0, token |-> 0, invite |-> <<>>, checkedAt |-> 0,
     existingMembership |-> FALSE, status |-> 0]

IsMember(userId) == \E i \in DOMAIN groupMembers : groupMembers[i] = userId

\* where: { groupId, email, status: 'PENDING', expiresAt: { gt: new Date() } }
IsActive(invite, email, t) ==
    invite.email = email /\ invite.status = "PENDING" /\ invite.expiresAt > t

\* invite.expiresAt < new Date()
HasExpired(invite, t) == invite.expiresAt < t

\* Any user may take the invite.
EmailMatchesAnyone(invite, userId) == TRUE

\* invite.email !== user.email, the user's email being the user's number.
EmailMatches(invite, userId) == invite.email = userId

pendingInvite(email, t) == {i \in DOMAIN invites : IsActive(invites[i], email, t)}

InviteInit ==
    /\ invites = <<>>
    /\ groupMembers = <<Owner>>
    /\ creates = [c \in 1..MaxCreates |-> IdleCreate]
    /\ accepts = [a \in 1..MaxAccepts |-> IdleAccept]
    /\ now = 0
    /\ balanceCache = EmptyMap
    /\ lastCall = <<>>
    /\ pc = "invites"
    /\ users = <<>>
    /\ expenses = <<>>
    /\ SettleIdle
    /\ FairnessIdle
    /\ DbIdle
    /\ ToggleIdle

InviteFrame ==
    UNCHANGED <<pc, users, expenses, netBalances, balances, settlements, fairVars,
                balanceCache, lastCall, now, dbVars, requests, toggleVars>>

\* POST /api/invites: the sender's permission is found.
FindSender(c, email, days) ==
    /\ creates[c].pc = "idle"
    /\ \A q \in 1..(c - 1) : creates[q].pc # "idle"
    /\ creates' = [creates EXCEPT ![c] =
                      IF IsMember(Owner)
                      THEN [@ EXCEPT !.pc = "recipient", !.email = email, !.days = days]
                      ELSE [@ EXCEPT !.pc = "done", !.email = email, !.days = days, !.status = 403]]
    /\ UNCHANGED <<invites, groupMembers, accepts>>
    /\ InviteFrame

\* The user of the email, if any, is looked up among the members.
FindRecipient(c) ==
    /\ creates[c].pc = "recipient"
    /\ creates' = [creates EXCEPT ![c] =
                      IF IsMember(creates[c].email)
                      THEN [@ EXCEPT !.pc = "done", !.status = 400]
                      ELSE [@ EXCEPT !.pc = "pending"]]
    /\ UNCHANGED <<invites, groupMembers, accepts>>
    /\ InviteFrame

FindPendingInvite(c) ==
    /\ creates[c].pc = "pending"
    /\ creates' = [creates EXCEPT ![c] =
                      IF pendingInvite(creates[c].email, now) # {}
                      THEN [@ EXCEPT !.pc = "done", !.status = 400]
                      ELSE [@ EXCEPT !.pc = "create"]]
    /\ UNCHANGED <<invites, groupMembers, accepts>>
    /\ InviteFrame

\* expiresAt.setDate(expiresAt.getDate() + expiresInDays), then invite.create.
CreateInvite(c) ==
    /\ creates[c].pc = "create"
    /\ invites' = Append(invites, Invite(creates[c].email, "PENDING",
                                         now + creates[c].days * DayMs, creates[c].email))
    /\ creates' = [creates EXCEPT ![c] = [@ EXCEPT !.pc = "done", !.status = 201]]
    /\ UNCHANGED <<groupMembers, accepts>>
    /\ InviteFrame

CreateStep ==
    \E c \in 1..MaxCreates :
        \/ \E email \in Invitees, days \in 1..MaxExpiresInDays : FindSender(c, email, days)
        \/ FindRecipient(c)
        \/ FindPendingInvite(c)
        \/ CreateInvite(c)

\* POST /api/invites/accept: invite.findUnique({ where: { token } }).
FindInvite(a, userId, token) ==
    /\ accepts[a].pc = "idle"
    /\ \A q \in 1..(a - 1) : accepts[q].pc # "idle"
    /\ accepts' = [accepts EXCEPT ![a] =
                      IF token \in DOMAIN invites
                      THEN [@ EXCEPT !.pc = "check", !.userId = userId, !.token = token,
                                     !.invite = <<invites[token]>>]
                      ELSE [@ EXCEPT !.pc = "done", !.userId = userId, !.token = token,
                                     !.status = 404]]
    /\ UNCHANGED <<invites, groupMembers, creates>>
    /\ InviteFrame

\* The status and the expiry of the invite as read, then the user's email.
CheckInvite(a) ==
    /\ accepts[a].pc = "check"
    /\ LET invite == accepts[a].invite[1]
       IN IF invite.status # "PENDING"
          THEN /\ accepts' = [accepts EXCEPT ![a] = [@ EXCEPT !.pc = "done", !.checkedAt = now, !.status = 400]]
               /\ invites' = invites
          ELSE IF HasExpired(invite, now)
          THEN /\ invites' = [invites EXCEPT ![accepts[a].token] = [@ EXCEPT !.status = "EXPIRED"]]
               /\ accepts' = [accepts EXCEPT ![a] = [@ EXCEPT !.pc = "done", !.checkedAt = now, !.status = 400]]
          ELSE IF ~EmailMatches(invite, accepts[a].userId)
          THEN /\ accepts' = [accepts EXCEPT ![a] = [@ EXCEPT !.pc = "done", !.checkedAt = now, !.status = 403]]
               /\ invites' = invites
          ELSE /\ accepts' = [accepts EXCEPT ![a] = [@ EXCEPT !.pc = "membership", !.checkedAt = now]]
               /\ invites' = invites
    /\ UNCHANGED <<groupMembers, creates>>
    /\ InviteFrame

FindExistingMembership(a) ==
    /\ accepts[a].pc = "membership"
    /\ accepts' = [accepts EXCEPT ![a] =
                      [@ EXCEPT !.pc = "accept", !.existingMembership = IsMember(accepts[a].userId)]]
    /\ UNCHANGED <<invites, groupMembers, creates>>
    /\ InviteFrame

\* "Update invite status but don't error".
AcceptAsMember(a) ==
    /\ accepts[a].pc = "accept"
    /\ accepts[a].existingMembership
    /\ invites' = [invites EXCEPT ![accepts[a].token] = [@ EXCEPT !.status = "ACCEPTED"]]
    /\ accepts' = [accepts EXCEPT ![a] = [@ EXCEPT !.pc = "done", !.status = 200]]
    /\ UNCHANGED <<groupMembers, creates>>
    /\ InviteFrame

\* prisma.$transaction([groupMember.create, invite.update]).
AcceptAndJoin(a) ==
    /\ accepts[a].pc = "accept"
    /\ ~accepts[a].existingMembership
    /\ groupMembers' = Append(groupMembers, accepts[a].userId)
    /\ invites' = [invites EXCEPT ![accepts[a].token] =
                      [@ EXCEPT !.status = "ACCEPTED", !.recipientId = accepts[a].userId]]
    /\ accepts' = [accepts EXCEPT ![a] = [@ EXCEPT !.pc = "done", !.status = 200]]
    /\ UNCHANGED creates
    /\ InviteFrame

AcceptStep ==
    \E a \in 1..MaxAccepts :
        \/ \E userId \in Invitees, token \in 1..MaxCreates : FindInvite(a, userId, token)
        \/ CheckInvite(a)
        \/ FindExistingMembership(a)
        \/ AcceptAsMember(a)
        \/ AcceptAndJoin(a)

InviteElapse ==
    /\ \E t \in InviteInstants : t > now /\ now' = t
    /\ UNCHANGED <<pc, users, expenses, netBalances, balances, settlements, fairVars,
                   balanceCache, lastCall, webVars>>

InviteNext == CreateStep \/ AcceptStep \/ InviteElapse

InviteSpec == InviteInit /\ [][InviteNext]_vars

-----------------------------------------------------------------------------
(* POST /api/chores/:id/complete on one assignment of a chore. User 1 is   *)
(* a member of the chore's group, user 2 is not; assignment 1 exists.      *)

MaxToggles == 3

ToggleUsers == {1, 2}

AssignmentIds == {1, 2}

ToggleInstants == {0, 1}

AssignmentRow(isCompleted, completedAt) ==
    [isCompleted |-> isCompleted, completedAt |-> completedAt]

IdleToggle == [pc |-> "idle", userId |-> 0, assignment |-> <<>>, status |-> 0]

ToggleInit ==
    /\ assignmentRow \in {<<AssignmentRow(FALSE, <<>>)>>, <<AssignmentRow(TRUE, <<0>>)>>}
    /\ assignmentAtStart = assignmentRow
    /\ toggles = [t \in 1..MaxToggles |-> IdleToggle]
    /\ now = 0
    /\ balanceCache = EmptyMap
    /\ lastCall = <<>>
    /\ pc = "toggle"
    /\ users = <<>>
    /\ expenses = <<>>
    /\ SettleIdle
    /\ FairnessIdle
    /\ DbIdle
    /\ InviteIdle

ToggleFrame ==
    UNCHANGED <<pc, users, expenses, netBalances, balances, settlements, fairVars,
                balanceCache, lastCall, now, dbVars, requests, inviteVars, assignmentAtStart>>

\* choreAssignment.findFirst, then the two checks on what it returned.
FindAssignment(t, userId, assignmentId) ==
    /\ toggles[t].pc = "idle"
    /\ \A q \in 1..(t - 1) : toggles[q].pc # "idle"
    /\ toggles' = [toggles EXCEPT ![t] =
                      IF assignmentId \notin DOMAIN assignmentRow
                      THEN [@ EXCEPT !.pc = "done", !.userId = userId, !.status = 404]
                      ELSE IF userId # 1
                      THEN [@ EXCEPT !.pc = "done", !.userId = userId, !.status = 403]
                      ELSE [@ EXCEPT !.pc = "update", !.userId = userId,
                                     !.assignment = <<assignmentRow[assignmentId]>>]]
    /\ UNCHANGED assignmentRow
    /\ ToggleFrame

\* data: { isCompleted: !assignment.isCompleted,
\*         completedAt: !assignment.isCompleted ? new Date() : null }
Toggled(assignment, t) ==
    AssignmentRow(~assignment.isCompleted, IF ~assignment.isCompleted THEN <<t>> ELSE <<>>)

UpdateAssignment(t) ==
    /\ toggles[t].pc = "update"
    /\ assignmentRow' = [assignmentRow EXCEPT ![1] = Toggled(toggles[t].assignment[1], now)]
    /\ toggles' = [toggles EXCEPT ![t] = [@ EXCEPT !.pc = "done", !.status = 200]]
    /\ ToggleFrame

ToggleElapse ==
    /\ \E t \in ToggleInstants : t > now /\ now' = t
    /\ UNCHANGED <<pc, users, expenses, netBalances, balances, settlements, fairVars,
                   balanceCache, lastCall, webVars>>

ToggleNext ==
    \/ \E t \in 1..MaxToggles :
          \/ \E userId \in ToggleUsers, assignmentId \in AssignmentIds :
                FindAssignment(t, userId, assignmentId)
          \/ UpdateAssignment(t)
    \/ ToggleElapse

ToggleSpec == ToggleInit /\ [][ToggleNext]_vars

-----------------------------------------------------------------------------
(* Quantities the properties are stated in.                                *)

RECURSIVE SumBalances(_)
SumBalances(nbs) == IF nbs = <<>> THEN 0 ELSE Head(nbs).balance + SumBalances(Tail(nbs))

RECURSIVE SumPositive(_)
SumPositive(nbs) ==
    IF nbs = <<>> THEN 0
    ELSE (IF Head(nbs).balance > 0 THEN Head(nbs).balance ELSE 0) + SumPositive(Tail(nbs))

RECURSIVE SumShares(_, _)
SumShares(id, shares) ==
    IF shares = <<>> THEN 0
    ELSE (IF Head(shares).userId = id THEN Head(shares).amount ELSE 0)
         + SumShares(id, Tail(shares))

RECURSIVE TotalPaid(_, _)
TotalPaid(id, es) ==
    IF es = <<>> THEN 0
    ELSE (IF Head(es).paidById = id THEN Head(es).amount ELSE 0) + TotalPaid(id, Tail(es))

RECURSIVE TotalOwed(_, _)
TotalOwed(id, es) ==
    IF es = <<>> THEN 0 ELSE SumShares(id, Head(es).shares) + TotalOwed(id, Tail(es))

MemberIds == {users[i].id : i \in 1..Len(users)}

Max(a, b) == IF a > b THEN a ELSE b

Computed == pc # "calc"

-----------------------------------------------------------------------------
\* C1: the balances returned by calculateNetBalances sum to 0 over all
\* members, for any members and expenses.
MoneyConservation == Computed => SumBalances(netBalances) = 0

\* C2: every member's balance is the total of the expenses the member paid
\* minus the total of the member's shares; with no expenses it is 0.
BalanceIsPaidMinusOwed ==
    Computed =>
        \A i \in 1..Len(users) :
            /\ netBalances[i].balance =
                   TotalPaid(users[i].id, expenses) - TotalOwed(users[i].id, expenses)
            /\ expenses = <<>> => netBalances[i].balance = 0

\* C2 witness: a member who paid one expense and owes a share of another.
PaidOneOwesAnother ==
    /\ Computed
    /\ Len(expenses) = 2
    /\ \E i \in 1..Len(users) :
          /\ expenses[1].paidById = users[i].id /\ expenses[1].amount > 0
          /\ expenses[2].paidById # users[i].id
          /\ SumShares(users[i].id, expenses[2].shares) > 0
          /\ netBalances[i].balance > 0

\* C3: the settlement amounts sum to the total positive balance.
SettlementCompleteness ==
    pc = "done" => SumAmounts(settlements) = SumPositive(netBalances)

\* C4: when the balances sum to 0, what every member receives minus what
\* the member pays over all settlements is the member's net balance, and a
\* sole debtor pays the absolute value of its balance.
SettlementsClearEveryMember ==
    (pc = "done" /\ SumBalances(netBalances) = 0) =>
        \A i \in 1..Len(users) :
            LET id == users[i].id
                b == netBalances[i].balance
            IN /\ calculateUserTotalOwed(id, settlements)
                     - calculateUserTotalDebt(id, settlements) = b
               /\ (b < 0 /\ \A j \in 1..Len(users) : j # i => netBalances[j].balance >= 0)
                     => calculateUserTotalDebt(id, settlements) = -b

\* C4 witness: balanced books in which a sole debtor pays two creditors.
SoleDebtorPaysTwo ==
    /\ pc = "done"
    /\ SumBalances(netBalances) = 0
    /\ Len(settlements) = 2
    /\ settlements[1].from = settlements[2].from
    /\ settlements[1].to # settlements[2].to

\* C5: the number of settlements is at most members.length - 1.
TransactionCountBound == pc = "done" => Len(settlements) <= Len(users) - 1

\* C5 as amended: at most members.length - 1 settlements for a non-empty
\* member list, and none for an empty one.
TransactionCountBoundNonEmpty == Len(settlements) <= Max(Len(users) - 1, 0)

\* C5 witness: three members settled with exactly two settlements.
ThreeMembersTwoSettlements ==
    pc = "done" /\ Len(users) = 3 /\ Len(settlements) = 2

\* One more settlement was emitted by this step.
Emitted == Len(settlements') = Len(settlements) + 1

Emission == settlements'[Len(settlements')]

IterationZeroesOne ==
    Emitted => (balances'.val[Emission.from] = 0 \/ balances'.val[Emission.to] = 0)

\* C6: the settlement loop reaches its terminal state, every settling
\* iteration zeroes the chosen debtor or the chosen creditor, and at most
\* members - 1 settling iterations occur.
SettlementLoopTerminates ==
    /\ <>(pc = "done")
    /\ [][IterationZeroesOne]_vars
    /\ [](pc = "done" => Len(settlements) <= Len(users) - 1)

\* C6 as amended: as C6, with at most members - 1 settling iterations for a
\* non-empty member list and none for an empty one.
SettlementLoopTerminatesNonEmpty ==
    /\ <>(pc = "done")
    /\ [][IterationZeroesOne]_vars
    /\ [](pc = "done" => Len(settlements) <= Max(Len(users) - 1, 0))

\* C6 witness: a terminated loop over balances that do not sum to 0, after
\* two settling iterations.
UnbalancedLoopDone ==
    pc = "done" /\ SumBalances(netBalances) # 0 /\ Len(settlements) = 2

PositionOf(id) == CHOOSE i \in 1..Len(netBalances) : netBalances[i].userId = id

FirstMostNegative(m) ==
    CHOOSE k \in DOMAIN m.val :
        /\ m.val[k] < 0
        /\ \A o \in DOMAIN m.val :
              \/ m.val[o] > m.val[k]
              \/ m.val[o] = m.val[k] /\ PositionOf(o) >= PositionOf(k)

FirstMostPositive(m) ==
    CHOOSE k \in DOMAIN m.val :
        /\ m.val[k] > 0
        /\ \A o \in DOMAIN m.val :
              \/ m.val[o] < m.val[k]
              \/ m.val[o] = m.val[k] /\ PositionOf(o) >= PositionOf(k)

Transfers(ss) == [i \in 1..Len(ss) |-> <<ss[i].from, ss[i].to, ss[i].amount>>]

BalancesAre(ids, bs) ==
    /\ Len(netBalances) = Len(ids)
    /\ \A i \in 1..Len(ids) :
          netBalances[i].userId = ids[i] /\ netBalances[i].balance = bs[i]

\* C7: each settlement goes from the member with the most negative working
\* balance to the member with the most positive one, the earliest in the
\* order of netBalances among equals; balances [U1=+8000, U2=-4000,
\* U3=-4000] give exactly [U2->U1:4000, U3->U1:4000].
GreedyStableSelection ==
    /\ [][Emitted =>
            /\ Emission.from = FirstMostNegative(balances)
            /\ Emission.to = FirstMostPositive(balances)]_vars
    /\ []((pc = "done" /\ BalancesAre(<<1, 2, 3>>, <<8000, -4000, -4000>>))
            => Transfers(settlements) = <<<<2, 1, 4000>>, <<3, 1, 4000>>>>)

\* C7 witness: the equal three-way split, settled.
EqualSplitSettled ==
    /\ pc = "done"
    /\ BalancesAre(<<1, 2, 3>>, <<8000, -4000, -4000>>)
    /\ Len(settlements) = 2

\* C8: a settlement's amount is a positive integer, the smaller of the
\* debtor's debt and the creditor's credit when it is emitted; the debtor's
\* working balance rises and the creditor's falls by exactly that amount;
\* balances of -1 and +1 are settled like any other.
ExactSettlementAmounts ==
    /\ [][Emitted =>
            LET d == balances.val[Emission.from]
                c == balances.val[Emission.to]
            IN /\ d < 0 /\ c > 0
               /\ Emission.amount \in Nat \ {0}
               /\ Emission.amount = Min(Abs(d), c)
               /\ balances'.val[Emission.from] = d + Emission.amount
               /\ balances'.val[Emission.to] = c - Emission.amount]_vars
    /\ [](pc = "done" =>
            ~\E a, b \in DOMAIN balances.val :
                balances.val[a] <= -1 /\ balances.val[b] >= 1)

\* C8 witness: a debtor of one minor unit has paid a creditor of one.
UnitDebtSettled ==
    /\ Len(settlements) = 1
    /\ settlements[1].amount = 1
    /\ \E i, j \in 1..Len(netBalances) :
          /\ netBalances[i].userId = settlements[1].from /\ netBalances[i].balance = -1
          /\ netBalances[j].userId = settlements[1].to /\ netBalances[j].balance = 1

StripExpense(e) ==
    [amount |-> IF e.paidById \in MemberIds THEN e.amount ELSE 0,
     paidById |-> e.paidById,
     shares |-> SelectSeq(e.shares, LAMBDA sh : sh.userId \in MemberIds)]

KnownOnly(es) == [i \in 1..Len(es) |-> StripExpense(es[i])]

\* C9: one NetBalance per member, in member order; payers and share owners
\* outside the member list add no entry and change no member's balance.
OneBalancePerMember ==
    Computed =>
        /\ Len(netBalances) = Len(users)
        /\ \A i \in 1..Len(users) :
              /\ netBalances[i].userId = users[i].id
              /\ netBalances[i].userName = users[i].name
        /\ netBalances = calculateNetBalances(users, KnownOnly(expenses))

\* C9 witness: an outsider paid an expense and another outsider holds a
\* share, next to a member whose balance is not 0.
OutsidersReferenced ==
    /\ Computed
    /\ \E i \in 1..Len(expenses) :
          expenses[i].paidById \notin MemberIds /\ expenses[i].amount > 0
    /\ \E i \in 1..Len(expenses) : \E j \in 1..Len(expenses[i].shares) :
          expenses[i].shares[j].userId \notin MemberIds
    /\ \E i \in 1..Len(netBalances) : netBalances[i].balance # 0

RECURSIVE PaidVariantsOfShares(_)
PaidVariantsOfShares(shares) ==
    IF shares = <<>> THEN {<<>>}
    ELSE {<<[Head(shares) EXCEPT !.isPaid = p]>> \o rest :
            p \in BOOLEAN, rest \in PaidVariantsOfShares(Tail(shares))}

\* The expense lists that differ from es in isPaid values only.
RECURSIVE PaidVariants(_)
PaidVariants(es) ==
    IF es = <<>> THEN {<<>>}
    ELSE {<<[Head(es) EXCEPT !.shares = sh]>> \o rest :
            sh \in PaidVariantsOfShares(Head(es).shares), rest \in PaidVariants(Tail(es))}

\* C10: expense lists that differ only in isPaid give the same balances and
\* the same settlements.
PaidFlagIgnored ==
    pc = "done" =>
        \A es \in PaidVariants(expenses) :
            calculateBalanceAndSettlements(users, es) =
                [balances |-> netBalances, settlements |-> settlements]

\* C10 witness: a member whose only share is marked paid still pays it.
PaidShareStillSettled ==
    /\ pc = "done"
    /\ Len(expenses) = 1
    /\ Len(settlements) = 1
    /\ \E j \in 1..Len(expenses[1].shares) :
          /\ expenses[1].shares[j].isPaid
          /\ expenses[1].shares[j].userId = settlements[1].from
          /\ expenses[1].shares[j].amount = settlements[1].amount

-----------------------------------------------------------------------------
(* Degenerate inputs.                                                      *)

ZeroAmounts(es) ==
    \A k \in 1..Len(es) :
        /\ es[k].amount = 0
        /\ \A j \in 1..Len(es[k].shares) : es[k].shares[j].amount = 0

\* C11: every run computes its balances, and the result of a degenerate
\* input is the degenerate one: no members give no balances and
\* no settlements, a single member gives one balance and no settlements,
\* zero-amount expenses give all balances 0 and no settlements.
DegenerateInputsGiveResults ==
    /\ pc \in {"calc", "loop", "done"}
    /\ Computed => Len(netBalances) = Len(users)
    /\ (Computed /\ users = <<>>) => netBalances = <<>> /\ settlements = <<>>
    /\ (Computed /\ Len(users) = 1) => settlements = <<>>
    /\ (Computed /\ ZeroAmounts(expenses)) =>
          /\ \A i \in 1..Len(netBalances) : netBalances[i].balance = 0
          /\ settlements = <<>>

\* C11 witness: the zero-amount expense of the test suite, run to the end.
ZeroAmountExpenseDone ==
    /\ pc = "done"
    /\ expenses = ZeroAmount
    /\ Len(netBalances) = 3

-----------------------------------------------------------------------------
(* Fairness scores.                                                        *)

Scored == pc = "scored"

\* C12: every score is an integer from 0 to 100.
ScoreInRange ==
    Scored => \A i \in 1..Len(fairnessScores) : fairnessScores[i].score \in 0..100

\* C12 witness: a member who paid three times the own share and completed
\* one assignment of three scores 50 + 16.67, rounded.
OverpaidThirdCompleted ==
    /\ Scored
    /\ choreAssignments = ThirdChores
    /\ TotalPaid(1, expenses) > 2 * TotalOwed(1, expenses)
    /\ fairnessScores[1].score = 67

\* The expense subscore of member i, as the code computes it.
ExpenseSubscore(i) ==
    expenseScore(ExpenseDataOf(expenseContributions(users, expenses), users[i].id),
                 totalExpenses(expenses))

\* c is the fraction x rounded to the nearest integer, halves upwards.
IsRounded(c, x) == (2 * c - 1) * x.den <= 2 * x.num /\ 2 * x.num < (2 * c + 1) * x.den

FracEq(a, b) == a.num * b.den = b.num * a.den

AssignmentsOf(id) == {k \in 1..Len(choreAssignments) : choreAssignments[k].userId = id}

CompletedOf(id) == {k \in AssignmentsOf(id) : choreAssignments[k].isCompleted}

\* C14: a member without assignments has chore contribution 40 (subscore
\* 20) whenever another member has an assignment, whatever its points.
PenaltyWheneverPeersHaveChores ==
    Scored =>
        \A i \in 1..Len(users) :
            (/\ AssignmentsOf(users[i].id) = {}
             /\ \E j \in 1..Len(users) : AssignmentsOf(users[j].id) # {})
            => fairnessScores[i].choreContribution = 40

\* C15: a member with assignments has chore subscore completed / total * 50
\* over the own assignments only; with no assignment in the input every
\* member has the neutral chore contribution 50 (subscore 25).
ChoreSubscoreRule ==
    Scored =>
        \A i \in 1..Len(users) :
            LET total == Cardinality(AssignmentsOf(users[i].id))
                completed == Cardinality(CompletedOf(users[i].id))
                sub == choreScore(ChoreDataOf(choreContributions(users, choreAssignments),
                                              users[i].id),
                                  totalChorePoints(choreAssignments))
                c == fairnessScores[i].choreContribution
            IN /\ total > 0 => FracEq(sub, Frac(completed * 50, total))
               /\ total > 0 => IsRounded(c, Frac(completed * 100, total))
               /\ choreAssignments = <<>> => FracEq(sub, Frac(25, 1)) /\ c = 50

\* C15 witness: of two members with assignments one completed one of two
\* and the other none of one.
HalfCompletedMember ==
    /\ Scored
    /\ \E i, j \in 1..Len(users) :
          /\ Cardinality(AssignmentsOf(users[i].id)) = 2
          /\ Cardinality(CompletedOf(users[i].id)) = 1
          /\ fairnessScores[i].choreContribution = 50
          /\ Cardinality(AssignmentsOf(users[j].id)) = 2
          /\ Cardinality(CompletedOf(users[j].id)) = 0
          /\ fairnessScores[j].choreContribution = 0

\* The points of the completed assignments of member id.
RECURSIVE CompletedPoints(_, _)
CompletedPoints(id, cs) ==
    IF cs = <<>> THEN 0
    ELSE (IF Head(cs).userId = id /\ Head(cs).isCompleted THEN Head(cs).points ELSE 0)
         + CompletedPoints(id, Tail(cs))

OneScorePerMember ==
    Scored =>
        LET em == expenseContributions(users, expenses)
            cm == choreContributions(users, choreAssignments)
            ids == [i \in 1..Len(users) |-> users[i].id]
        IN /\ Len(fairnessScores) = Len(users)
           /\ \A i \in 1..Len(users) :
                 /\ fairnessScores[i].userId = users[i].id
                 /\ fairnessScores[i].userName = users[i].name
                 /\ em.val[users[i].id].paid = TotalPaid(users[i].id, expenses)
                 /\ em.val[users[i].id].owed = TotalOwed(users[i].id, expenses)
                 /\ cm.val[users[i].id].total = Cardinality(AssignmentsOf(users[i].id))
                 /\ cm.val[users[i].id].completed = Cardinality(CompletedOf(users[i].id))
           /\ em.keys = ids
           /\ cm.keys = ids

\* C17 witness: two members are scored while an expense is paid by, and an
\* assignment belongs to, somebody who is not a member.
OutsidersScoredAround ==
    /\ Scored
    /\ Len(fairnessScores) = 2
    /\ \E k \in 1..Len(expenses) : expenses[k].paidById \notin MemberIds
    /\ \E k \in 1..Len(choreAssignments) : choreAssignments[k].userId \notin MemberIds

ScoreTriple(i) ==
    <<fairnessScores[i].score, fairnessScores[i].expenseContribution,
      fairnessScores[i].choreContribution>>

\* C18: on the documented example Alice scores 100 (expense 100, chores
\* 100), Bob 25 (expense 0, chores 0) and Charlie 75 (expense 100, chores 50).
DocumentedExampleScores ==
    (Scored /\ users = TestUsers /\ expenses = ExampleExpenses
        /\ choreAssignments = ExampleChores)
    => /\ ScoreTriple(1) = <<100, 100, 100>>
       /\ ScoreTriple(2) = <<25, 0, 0>>
       /\ ScoreTriple(3) = <<75, 100, 50>>

-----------------------------------------------------------------------------
(* Cache lookups.                                                          *)

Looked == lastCall # <<>> /\ lastCall.fn = "getCachedBalance"

IsHit == Looked /\ lastCall.result # <<>>

\* What a lookup step must do: pre-state unprimed, the call's record primed.
LookupStep ==
    (/\ lastCall' # <<>>
     /\ lastCall'.fn = "getCachedBalance"
     /\ now' = now
     /\ <<balanceCache, lastCall>>' # <<balanceCache, lastCall>>)
    => LET g == lastCall'.groupId
           valid == /\ MapHas(balanceCache, g)
                    /\ now - balanceCache.val[g].timestamp <= CACHE_TTL_MS
                    /\ balanceCache.val[g].etag = lastCall'.etag
       IN /\ valid => /\ lastCall'.result = <<balanceCache.val[g]>>
                      /\ balanceCache' = balanceCache
          /\ ~valid => /\ lastCall'.result = <<>>
                       /\ ~MapHas(balanceCache', g)
                       /\ \A k \in DOMAIN balanceCache.val \ {g} :
                             /\ MapHas(balanceCache', k)
                             /\ balanceCache'.val[k] = balanceCache.val[k]

\* C20: a lookup returns the entry exactly when the group has one, of age
\* at most the TTL and with the requested fingerprint; otherwise it reports
\* a miss and the group has no entry afterwards; a hit never carries a
\* fingerprint other than the requested one.
LookupValidity ==
    /\ [](IsHit => lastCall.result[1].etag = lastCall.etag)
    /\ [][LookupStep]_vars

\* C20 witness: a hit on an entry whose age is exactly the TTL.
HitAtTtlBoundary ==
    /\ IsHit
    /\ now - lastCall.result[1].timestamp = CACHE_TTL_MS
    /\ MapHas(balanceCache, lastCall.groupId)

-----------------------------------------------------------------------------
(* The balance route.                                                      *)

Answered(r) == requests[r].pc = "done" /\ requests[r].response.status = 200

AllDone == \A r \in DOMAIN requests : requests[r].pc = "done"

\* C21: over unchanged data, requests that computed the same fingerprint
\* return the same body, which is the recomputation from the data, and when
\* all are done, with that fingerprint, and one of them published, the
\* cache holds that body under that fingerprint.
ConcurrentRequestsHarmless ==
    \A r, q \in DOMAIN requests :
        (Answered(r) /\ Answered(q) /\ requests[r].response.etag = requests[q].response.etag)
        => /\ requests[r].response.data = requests[q].response.data
           /\ requests[r].response.data =
                 responseData(requests[r].response.etag[2], Fetched)
           /\ (/\ AllDone
               /\ requests[r].response.xcache = "MISS"
               /\ \A x \in DOMAIN requests :
                     Answered(x) => requests[x].response.etag = requests[r].response.etag)
              => /\ MapHas(balanceCache, RequestedGroup)
                 /\ balanceCache.val[RequestedGroup].etag = requests[r].response.etag
                 /\ balanceCache.val[RequestedGroup].data = requests[r].response.data

\* C21 witness: two requests with one fingerprint both missed and both
\* recomputed.
BothMissed ==
    /\ Answered(1) /\ Answered(2)
    /\ requests[1].response.xcache = "MISS"
    /\ requests[2].response.xcache = "MISS"
    /\ requests[1].response.etag = requests[2].response.etag
    /\ balanceCache.val[RequestedGroup].timestamp = now
    /\ Len(requests[1].response.data.balances) = 2

\* C25: a stored entry is never replaced by one with an older fingerprint.
PublicationNeverGoesBack ==
    [][(/\ MapHas(balanceCache, RequestedGroup)
        /\ MapHas(balanceCache', RequestedGroup))
       => balanceCache'.val[RequestedGroup].etag[2] >= balanceCache.val[RequestedGroup].etag[2]]_vars

\* What an answer stands for.
Stands(data) == <<data.balances, data.settlements, data.fairnessScores>>

Recomputed == Stands(responseData(0, Fetched))

\* The fingerprint the requester of r would compute from the rows as they are.
CurrentETag(r) ==
    generateETag(RequestedGroup, lastModified(dbMembers[requests[r].userId]))

\* C26: an answer from the cache (X-Cache HIT) or a 304, given under the
\* fingerprint of the rows as they are, stands for the balances,
\* settlements and fairness scores a recomputation from those rows gives.
CachedAnswersFresh ==
    [][\A r \in DOMAIN requests :
          (/\ requests[r].pc = "lookup"
           /\ requests'[r].pc = "done"
           /\ requests'[r].response.etag = CurrentETag(r))
          => LET resp == requests'[r].response
             IN /\ resp.xcache = "HIT" => Stands(resp.data) = Recomputed
                /\ resp.status = 304 =>
                      \A q \in DOMAIN requests :
                          (Answered(q) /\ requests[q].response.etag = resp.etag)
                          => Stands(requests[q].response.data) = Recomputed]_vars

\* C27: over rows that do not change, the lookup of any member that finds
\* an entry of the group no older than the TTL is answered without a
\* recomputation and leaves the entry in place.
SecondMemberHits ==
    [][\A r \in DOMAIN requests :
          (/\ requests[r].pc = "lookup"
           /\ requests'[r].pc # "lookup"
           /\ MapHas(balanceCache, RequestedGroup)
           /\ ~IsExpired(balanceCache.val[RequestedGroup], now))
          => /\ requests'[r].pc = "done"
             /\ MapHas(balanceCache', RequestedGroup)]_vars

\* What a call of setCachedBalance must do: pre-state unprimed, the call's
\* record primed.
StoreStep ==
    (/\ lastCall' # <<>>
     /\ lastCall'.fn = "setCachedBalance"
     /\ <<balanceCache, lastCall>>' # <<balanceCache, lastCall>>)
    => LET g == lastCall'.groupId
           others == (DOMAIN balanceCache.val \cup DOMAIN balanceCache'.val) \ {g}
           sizeAfter == Cardinality(DOMAIN balanceCache.val \cup {g})
           swept(h) == /\ sizeAfter > CleanupSize
                       /\ now - balanceCache.val[h].timestamp > CACHE_TTL_MS
       IN /\ Cardinality({i \in DOMAIN balanceCache'.keys : balanceCache'.keys[i] = g}) = 1
          /\ balanceCache'.val[g] = lastCall'.result[1]
          /\ lastCall'.result[1].timestamp = now
          /\ lastCall'.result[1].etag = lastCall'.etag
          /\ \A h \in others :
                /\ MapHas(balanceCache, h)
                /\ MapHas(balanceCache', h) <=> ~swept(h)
                /\ MapHas(balanceCache', h) => balanceCache'.val[h] = balanceCache.val[h]

\* C28: setCachedBalance leaves exactly one entry of the group, holding the
\* data, the fingerprint and the current time; the entries of other groups
\* stay as they are unless the cache holds more than 100 entries after the
\* write, and then exactly those older than the TTL are removed.
StoreFrame == [][StoreStep]_vars

\* C28 witness: a write into a cache of more than 100 entries removed the
\* entries older than the TTL and kept one whose age is exactly the TTL.
SweptOldKeptFresh ==
    /\ lastCall # <<>>
    /\ lastCall.fn = "setCachedBalance"
    /\ Len(balanceCache.keys) < CleanupSize - 1
    /\ \A h \in DOMAIN balanceCache.val : now - balanceCache.val[h].timestamp <= CACHE_TTL_MS
    /\ \E h \in DOMAIN balanceCache.val : now - balanceCache.val[h].timestamp = CACHE_TTL_MS
    /\ balanceCache.val[lastCall.groupId].timestamp = now

-----------------------------------------------------------------------------
(* The settlement loop, prefix by prefix.                                  *)

InputBalance(u) == WorkingCopy(netBalances).val[u]

\* C29: after every iteration of the settlement loop each member's working
\* balance has the sign of the input balance or is 0; every 'from' has a
\* negative input balance and every 'to' a positive one, so a member with
\* input balance 0 is in no settlement and no member is on both sides; the
\* circular case of the test suite ends with the one settlement 1 -> 3 of
\* 3000.
SignsKeptThroughLoop ==
    pc \in {"loop", "done"} =>
        /\ \A u \in DOMAIN balances.val :
              /\ InputBalance(u) > 0 => balances.val[u] >= 0
              /\ InputBalance(u) < 0 => balances.val[u] <= 0
              /\ InputBalance(u) = 0 => balances.val[u] = 0
        /\ \A i \in DOMAIN settlements :
              /\ InputBalance(settlements[i].from) < 0
              /\ InputBalance(settlements[i].to) > 0
              /\ \A j \in DOMAIN settlements : settlements[i].from # settlements[j].to
        /\ (pc = "done" /\ users = TestUsers /\ expenses = CircularDebts)
              => /\ Len(settlements) = 1
                 /\ settlements[1].from = 1
                 /\ settlements[1].to = 3
                 /\ settlements[1].amount = 3000

\* C29 witness: in the middle of the loop a member is partly settled: the
\* working balance has moved towards 0 and has not reached it.
PartlySettledMember ==
    /\ pc = "loop"
    /\ Len(settlements) >= 1
    /\ \E u \in DOMAIN balances.val :
          balances.val[u] # 0 /\ balances.val[u] # InputBalance(u)

-----------------------------------------------------------------------------
(* Invites.                                                                *)

\* C30: after any interleaving of invite creations a group never holds two
\* invites of one email that are both PENDING and unexpired.
OneActiveInvitePerEmail ==
    \A i, j \in DOMAIN invites :
       (i # j /\ invites[i].email = invites[j].email)
       => ~(IsActive(invites[i], invites[i].email, now)
            /\ IsActive(invites[j], invites[j].email, now))

\* The accept request a takes a step.
Steps(a) == accepts'[a] # accepts[a]

\* What an accept request may do, given the invite as it read it.
AcceptLifecycle(a) ==
    LET read == accepts[a].invite
        others == [i \in DOMAIN invites \ {accepts[a].token} |-> invites[i]]
        othersAfter == [i \in DOMAIN invites' \ {accepts[a].token} |-> invites'[i]]
    IN /\ groupMembers' # groupMembers
          => /\ read # <<>>
             /\ read[1].status = "PENDING"
             /\ read[1].expiresAt >= accepts[a].checkedAt
             /\ read[1].email = accepts[a].userId
             /\ groupMembers' = Append(groupMembers, accepts[a].userId)
       /\ (read # <<>> /\ read[1].status # "PENDING")
          => /\ invites' = invites
             /\ groupMembers' = groupMembers
             /\ accepts'[a].status = 400
       /\ (accepts[a].pc = "check" /\ read[1].status = "PENDING" /\ read[1].expiresAt < now)
          => /\ invites'[accepts[a].token].status = "EXPIRED"
             /\ groupMembers' = groupMembers
             /\ accepts'[a].pc = "done"
             /\ accepts'[a].status = 400
       /\ othersAfter = others

MemberCannotAccept ==
    [][\A a \in DOMAIN accepts :
          (Steps(a) /\ accepts[a].pc = "accept" /\ accepts[a].existingMembership)
          => /\ accepts'[a].status \in 400..499
             /\ invites'[accepts[a].token].status = "PENDING"]_vars

-----------------------------------------------------------------------------
(* The completion toggle.                                                  *)

SuccessfulToggles ==
    Cardinality({t \in DOMAIN toggles : toggles[t].pc = "done" /\ toggles[t].status = 200})

NoToggleInFlight == \A t \in DOMAIN toggles : toggles[t].pc # "update"

\* C24: with no request in flight, after k successful toggles isCompleted
\* is the initial value when k is even and the opposite when k is odd, and
\* completedAt is set exactly when isCompleted is true.
ToggleParity ==
    NoToggleInFlight =>
        /\ assignmentRow[1].isCompleted =
              (IF SuccessfulToggles % 2 = 0
               THEN assignmentAtStart[1].isCompleted
               ELSE ~assignmentAtStart[1].isCompleted)
        /\ (assignmentRow[1].completedAt # <<>>) = assignmentRow[1].isCompleted

====
